---- MODULE Spec2Model ----
(***************************************************************************)
(* The analysis job lifecycle of VAST: the API request handlers of         *)
(* analysis_app/views.py (perform_create, cancel), the Celery task of      *)
(* analysis_app/tasks.py (run_analysis) and the three analysis backends of *)
(* analysis_core, over the AnalysisJob and AnalysisResult tables of        *)
(* analysis_app/models.py.                                                 *)
(*                                                                         *)
(* Every database statement is one atomic step.  A handler that holds a    *)
(* model instance in memory keeps a private copy of the row; save()        *)
(* writes every field of that copy back (Django's Model.save() without     *)
(* update_fields).  One create request is followed.  The task message it   *)
(* publishes is delivered at least once and at most MaxRuns times, a       *)
(* redelivery starting after the previous run has ended; cancel requests   *)
(* are sent one after the other, at most MaxCancels of them.  Requests and *)
(* runs interleave freely with one another.                                *)
(***************************************************************************)
EXTENDS Integers, Sequences, FiniteSets, TLC

\* Deliveries of the task message (at-least-once delivery).
MaxRuns == 2
\* Cancel requests sent for the job.
MaxCancels == 1

(***************************************************************************)
(* analysis_app/models.py                                                  *)
(***************************************************************************)
STATUS_CHOICES == {"PENDING", "RUNNING", "SUCCESS", "FAILED"}

ANALYSIS_TYPE_CHOICES ==
    {"power_spectrum", "fourier_transform", "light_curve", "rebin",
     "cross_spectrum", "pds_simulation", "lomb_scargle", "custom"}

BACKEND_CHOICES == {"stingray", "lightkurve", "astropy"}

RESULT_TYPE_CHOICES == {"plot", "data", "stats"}

\* An instant is named by the statement that read the clock (timezone.now(),
\* datetime.now(), auto_now_add): two reads are two instants.  The program
\* stores instants and never compares them.
Now(actor, n, site) == [actor |-> actor, n |-> n, site |-> site]
\* A null DateTimeField.
NoTime == Now("none", 0, "none")
\* A null or blank TextField, as a sequence of text fragments.
NoText == << >>
\* A null task_id, null file_path, null content.
NoValue == "None"

\* The correlation id Celery's delay() returns for the one task published.
TaskId == "celery-task-1"

\* The request's user and the data file it names.
RequestUser == "owner"
DataFileId == "datafile-1"

(***************************************************************************)
(* Inputs.  Texts are sequences of fragments, so that a wrapped message    *)
(* contains the message it wraps.                                          *)
(***************************************************************************)
\* The uploaded file: its extension and whether the library can parse it.
DataFileInputs ==
    { [ext |-> ".csv", readable |-> TRUE],
      [ext |-> ".csv", readable |-> FALSE],
      [ext |-> ".dat", readable |-> TRUE],
      [ext |-> ".xyz", readable |-> TRUE] }

\* What a create request may name as backend and analysis_type.
RequestBackends == BACKEND_CHOICES \cup {"idl"}
RequestTypes == {"rebin", "pds_simulation", "light_curve", "wavelet"}
RequestParameters == { {<<"bin_time", 2>>, <<"method", "mean">>} }

\* The text of an exception raised inside an analysis library.
LibraryError == "library error"

Ok(v) == [ok |-> TRUE, val |-> v, err |-> NoText]
Raise(text) == [ok |-> FALSE, val |-> {}, err |-> text]

\* str(e) of a ValueError(f"{prefix}{str(inner)}").
Wrap(prefix, r) == IF r.ok THEN r ELSE Raise(<<prefix>> \o r.err)

\* text contains part as a contiguous run of fragments.
Contains(text, part) ==
    \E i \in 0..(Len(text) - Len(part)) :
        \A k \in 1..Len(part) : text[i + k] = part[k]

(***************************************************************************)
(* analysis_core: get_backend and the backends' read_file                  *)
(***************************************************************************)
\* get_backend(backend_name); installed: the backend module's imports work.
get_backend(backend_name, installed) ==
    IF backend_name \in {"stingray", "lightkurve", "astropy"}
    THEN IF installed THEN Ok({backend_name})
         ELSE Raise(<<"ImportError: ", backend_name, " is required">>)
    ELSE Raise(<<"Unknown backend: ", backend_name>>)

StingrayReadFile(file) ==
    IF file.ext = ".fits"
    THEN IF file.readable THEN Ok({"time", "values", "metadata"})
         ELSE Raise(<<"Could not read FITS file: ", LibraryError>>)
    ELSE IF file.ext \in {".txt", ".csv", ".dat"}
    THEN IF file.readable THEN Ok({"time", "values", "metadata"})
         ELSE Raise(<<"Could not read text file: ", LibraryError>>)
    ELSE Raise(<<"Unsupported file format: ", file.ext>>)

AstropyReadFile(file) ==
    Wrap("Error reading file with Astropy: ",
         IF file.ext = ".fits" \/ file.ext \in {".txt", ".csv"}
         THEN IF file.readable THEN Ok({"time", "values", "errors", "metadata"})
              ELSE Raise(<<LibraryError>>)
         ELSE Raise(<<"Unsupported file format: ", file.ext>>))

LightkurveReadFile(file) ==
    Wrap("Error reading file with Lightkurve: ",
         IF file.ext = ".fits" \/ file.ext \in {".txt", ".csv"}
         THEN IF file.readable THEN Ok({"time", "values", "errors", "metadata"})
              ELSE Raise(<<LibraryError>>)
         ELSE Raise(<<"Unsupported file format: ", file.ext>>))

read_file(backend, file) ==
    CASE backend = "stingray" -> StingrayReadFile(file)
      [] backend = "astropy" -> AstropyReadFile(file)
      [] backend = "lightkurve" -> LightkurveReadFile(file)

(***************************************************************************)
(* analysis_core: run_analysis and generate_plot of the three backends.    *)
(* A RawResult is the set of keys of the returned dict (a key of the stats *)
(* sub-dict is written "stats.<key>").  lib_ok: the library calls of the   *)
(* selected implementation return without raising.                         *)
(***************************************************************************)
\* Computed without the data section in what is returned.
ComputedNoData(keys, lib_ok) ==
    IF lib_ok THEN Ok(keys \ {"data"}) ELSE Raise(<<LibraryError>>)

Computed(keys, lib_ok) == IF lib_ok THEN Ok(keys) ELSE Raise(<<LibraryError>>)

StingrayRunAnalysis(analysis_type, lib_ok) ==
    IF ~lib_ok /\ analysis_type # "power_spectrum"
    THEN Raise(<<LibraryError>>)
    ELSE CASE analysis_type = "power_spectrum" ->
                Wrap("Error in power spectrum calculation: ",
                     Computed({"data", "stats", "df", "metadata"}, lib_ok))
           [] analysis_type = "fourier_transform" ->
                Ok({"data", "stats", "df", "metadata"})
           [] analysis_type = "lomb_scargle" ->
                Ok({"data", "stats", "stats.top_peaks", "df", "metadata"})
           [] analysis_type = "rebin" ->
                Ok({"data", "stats", "df", "metadata"})
           [] analysis_type = "pds_simulation" ->
                Ok({"data", "stats", "lc_df", "ps_df", "metadata"})
           [] analysis_type = "cross_spectrum" ->
                Raise(<<"Cross spectrum analysis requires two light curves">>)
           [] OTHER ->
                Raise(<<"Unsupported analysis type for Stingray: ", analysis_type>>)

\* AstropyRunAnalysis with every other type handled as a rebin.
AstropyRunAnalysisLenient(analysis_type, lib_ok) ==
    CASE analysis_type \in {"lomb_scargle", "power_spectrum"} ->
            Computed({"data", "stats", "stats.top_peaks", "df", "metadata"}, lib_ok)
      [] analysis_type = "fourier_transform" ->
            Computed({"data", "stats", "df", "metadata"}, lib_ok)
      [] OTHER ->
            Computed({"data", "stats", "df", "metadata"}, lib_ok)

AstropyRunAnalysis(analysis_type, lib_ok) ==
    CASE analysis_type \in {"lomb_scargle", "power_spectrum"} ->
            Computed({"data", "stats", "stats.top_peaks", "df", "metadata"}, lib_ok)
      [] analysis_type = "fourier_transform" ->
            Computed({"data", "stats", "df", "metadata"}, lib_ok)
      [] analysis_type = "rebin" ->
            Computed({"data", "stats", "df", "metadata"}, lib_ok)
      [] OTHER ->
            Raise(<<"Unsupported analysis type for Astropy: ", analysis_type>>)

LightkurveRunAnalysis(analysis_type, lib_ok) ==
    IF ~lib_ok
    THEN Raise(<<LibraryError>>)
    ELSE CASE analysis_type \in {"power_spectrum", "lomb_scargle", "fourier_transform"} ->
                Ok({"data", "stats", "stats.top_peaks", "df", "metadata"})
           [] analysis_type = "rebin" ->
                Ok({"data", "stats", "df", "metadata"})
           [] OTHER ->
                Raise(<<"Unsupported analysis type for Lightkurve: ", analysis_type>>)

run_analysis(backend, analysis_type, lib_ok) ==
    CASE backend = "stingray" -> StingrayRunAnalysis(analysis_type, lib_ok)
      [] backend = "astropy" -> AstropyRunAnalysis(analysis_type, lib_ok)
      [] backend = "lightkurve" -> LightkurveRunAnalysis(analysis_type, lib_ok)

\* A plotting function: result_data[key] for each key it reads, then the
\* HoloViews/Bokeh rendering.
Render(result_data, reads, lib_ok) ==
    IF \E k \in reads : k \notin result_data
    THEN Raise(<<"KeyError: ", CHOOSE k \in reads : k \notin result_data>>)
    ELSE Computed({"html", "json_data"}, lib_ok)

StingrayGeneratePlot(analysis_type, result_data, lib_ok) ==
    CASE analysis_type = "power_spectrum" -> Render(result_data, {"df"}, lib_ok)
      [] analysis_type = "fourier_transform" -> Render(result_data, {"df"}, lib_ok)
      [] analysis_type = "lomb_scargle" ->
            Render(result_data, {"df", "stats", "stats.top_peaks"}, lib_ok)
      [] analysis_type = "rebin" -> Render(result_data, {"df"}, lib_ok)
      [] analysis_type = "pds_simulation" ->
            Render(result_data, {"lc_df", "ps_df"}, lib_ok)
      [] OTHER -> Raise(<<"No plotting function for analysis type: ", analysis_type>>)

AstropyGeneratePlot(analysis_type, result_data, lib_ok) ==
    CASE analysis_type \in {"lomb_scargle", "power_spectrum"} ->
            Render(result_data, {"df", "stats"}, lib_ok)
      [] analysis_type = "fourier_transform" -> Render(result_data, {"df"}, lib_ok)
      [] analysis_type = "rebin" -> Render(result_data, {"df"}, lib_ok)
      [] OTHER -> Raise(<<"No plotting function for analysis type: ", analysis_type>>)

\* LightkurveGeneratePlot without a renderer for fourier_transform.
LightkurveGeneratePlotNoFourier(analysis_type, result_data, lib_ok) ==
    CASE analysis_type \in {"power_spectrum", "lomb_scargle"} ->
            Render(result_data, {"df", "stats"}, lib_ok)
      [] analysis_type = "rebin" -> Render(result_data, {"df"}, lib_ok)
      [] OTHER -> Raise(<<"No plotting function for analysis type: ", analysis_type>>)

LightkurveGeneratePlot(analysis_type, result_data, lib_ok) ==
    CASE analysis_type \in {"power_spectrum", "lomb_scargle", "fourier_transform"} ->
            Render(result_data, {"df", "stats"}, lib_ok)
      [] analysis_type = "rebin" -> Render(result_data, {"df"}, lib_ok)
      [] OTHER -> Raise(<<"No plotting function for analysis type: ", analysis_type>>)

generate_plot(backend, analysis_type, result_data, lib_ok) ==
    CASE backend = "stingray" -> StingrayGeneratePlot(analysis_type, result_data, lib_ok)
      [] backend = "astropy" -> AstropyGeneratePlot(analysis_type, result_data, lib_ok)
      [] backend = "lightkurve" -> LightkurveGeneratePlot(analysis_type, result_data, lib_ok)

(***************************************************************************)
(* State                                                                   *)
(***************************************************************************)
VARIABLES
    dataFile,   \* the uploaded DataFile the request names
    jobs,       \* the AnalysisJob table: a sequence of rows, a row's id its index
    results,    \* the AnalysisResult table, in creation order
    queue,      \* the task messages published to the broker
    create,     \* the create request (perform_create) and its in-memory job
    run,        \* the current or last delivery of the task: run_analysis(job_id)
    cancel,     \* the current or last cancel request and its in-memory job
    dataFiles,  \* the DataFile table: the ids of its rows
    api,        \* the last response of the status and DataFile destroy endpoints
    call        \* the last direct call of an analysis_core function and its outcome

vars == <<dataFile, jobs, results, queue, create, run, cancel, dataFiles, api, call>>

\* A model instance that is not loaded.
BlankJob ==
    [id |-> 0, user |-> NoValue, data_file |-> NoValue, analysis_type |-> NoValue,
     backend |-> NoValue, parameters |-> {}, status |-> NoValue,
     error_message |-> NoText, submitted_at |-> NoTime, started_at |-> NoTime,
     finished_at |-> NoTime, task_id |-> NoValue]

\* AnalysisJob(**validated_data, user=..., status='PENDING') with the field defaults.
NewJob(id, analysis_type, backend, parameters, now) ==
    [id |-> id, user |-> RequestUser, data_file |-> DataFileId,
     analysis_type |-> analysis_type, backend |-> backend,
     parameters |-> parameters, status |-> "PENDING",
     error_message |-> NoText, submitted_at |-> now, started_at |-> NoTime,
     finished_at |-> NoTime, task_id |-> NoValue]

NoFile == << >>

\* AnalysisResult.objects.create(job=..., result_type=..., file_path=..., content=...);
\* by: the delivery that created the row.
NewResult(job_id, result_type, file_path, content, by) ==
    [job |-> job_id, result_type |-> result_type, file_path |-> file_path,
     content |-> content, by |-> by]

\* f"{job_id}_{analysis_type}_{timestamp}{suffix}" under results/.
ResultFileName(job_id, analysis_type, now, suffix) ==
    <<"results/", job_id, analysis_type, now, suffix>>

\* The n-th delivery before its first statement.
FreshRun(n) ==
    [n |-> n, pc |-> "idle", job_id |-> 0, job |-> BlankJob, err |-> NoText,
     result_data |-> {}, plot_result |-> {}, calls |-> << >>, nested |-> FALSE]

FreshCancel(n) == [n |-> n, pc |-> "idle", job |-> BlankJob, response |-> NoValue]

\* Model.save(): UPDATE of every column of the row with the instance's pk.
SaveJob(job) == jobs' = [jobs EXCEPT ![job.id] = job]

\* No response sent yet; no analysis_core function called directly yet.
NoReply == [endpoint |-> NoValue, code |-> NoValue, body |-> NoText]
NoCall == [fn |-> NoValue]

Init ==
    /\ dataFile \in DataFileInputs
    /\ jobs = << >>
    /\ results = << >>
    /\ queue = << >>
    /\ create = [pc |-> "request", job |-> BlankJob, task_id |-> NoValue,
                 response |-> NoValue]
    /\ run = FreshRun(0)
    /\ cancel = FreshCancel(0)
    /\ dataFiles = {DataFileId}
    /\ api = NoReply
    /\ call = NoCall

(***************************************************************************)
(* views.py: AnalysisJobViewSet.perform_create, behind the serializer's    *)
(* validation of the choices fields.                                       *)
(***************************************************************************)
\* ValidRequest without the choices check on backend.
ValidRequestTypeOnly(backend, analysis_type) ==
    analysis_type \in ANALYSIS_TYPE_CHOICES

\* AnalysisJobSerializer.is_valid(): the model's choices.
ValidRequest(backend, analysis_type) ==
    /\ backend \in BACKEND_CHOICES
    /\ analysis_type \in ANALYSIS_TYPE_CHOICES

\* AnalysisJobSerializer.is_valid(): the data_file field names a DataFile row.
DataFileExists == DataFileId \in dataFiles

CreateRejected ==
    /\ create.pc = "request"
    /\ \E backend \in RequestBackends, analysis_type \in RequestTypes :
          /\ ~ValidRequest(backend, analysis_type) \/ ~DataFileExists
          /\ create' = [create EXCEPT !.pc = "rejected", !.response = "400",
                           !.job = [BlankJob EXCEPT !.backend = backend,
                                                    !.analysis_type = analysis_type]]
    /\ UNCHANGED <<dataFile, jobs, results, queue, run, cancel, dataFiles, api, call>>

\* job = serializer.save(user=self.request.user, status='PENDING')
CreateSave ==
    /\ create.pc = "request"
    /\ \E backend \in RequestBackends, analysis_type \in RequestTypes,
          parameters \in RequestParameters :
          /\ ValidRequest(backend, analysis_type)
          /\ DataFileExists
          /\ LET job == NewJob(Len(jobs) + 1, analysis_type, backend, parameters,
                             Now("create", 1, "submitted_at"))
             IN /\ jobs' = Append(jobs, job)
                /\ create' = [create EXCEPT !.pc = "saved", !.job = job]
    /\ UNCHANGED <<dataFile, results, queue, run, cancel, dataFiles, api, call>>

\* task = run_analysis.delay(job.id)
CreateDelay ==
    /\ create.pc = "saved"
    /\ queue' = Append(queue, [id |-> TaskId, job_id |-> create.job.id])
    /\ create' = [create EXCEPT !.pc = "enqueued", !.task_id = TaskId]
    /\ UNCHANGED <<dataFile, jobs, results, run, cancel, dataFiles, api, call>>

\* job.task_id = task.id
WithTaskId(job, task_id) == [job EXCEPT !.task_id = task_id]

\* job.task_id = task.id; job.save()
CreateSaveTaskId ==
    /\ create.pc = "enqueued"
    /\ LET job == WithTaskId(create.job, create.task_id)
       IN /\ SaveJob(job)
          /\ create' = [create EXCEPT !.pc = "done", !.job = job, !.response = "201"]
    /\ UNCHANGED <<dataFile, results, queue, run, cancel, dataFiles, api, call>>

(***************************************************************************)
(* tasks.py: run_analysis(job_id), one run per delivery of the message.    *)
(***************************************************************************)
\* An exception leaves the try block: control is at "except Exception as e".
Except(r, text) == [r EXCEPT !.pc = "except", !.err = text]

RunEnded == run.pc \in {"idle", "returned", "raised"}

\* The broker delivers the message; job = AnalysisJob.objects.get(pk=job_id)
WorkerGet ==
    /\ RunEnded
    /\ run.n < MaxRuns
    /\ \E m \in 1..Len(queue) :
          LET job_id == queue[m].job_id
              r == [FreshRun(run.n + 1) EXCEPT !.job_id = job_id]
          IN run' = IF job_id \in DOMAIN jobs
                    THEN [r EXCEPT !.pc = "mark_running", !.job = jobs[job_id]]
                    ELSE Except(r, <<"AnalysisJob matching query does not exist.">>)
    /\ UNCHANGED <<dataFile, jobs, results, queue, create, cancel, dataFiles, api, call>>

\* MarkRunning without the assignment of started_at.
MarkRunningNoStart(job, now) ==
    [job EXCEPT !.status = "RUNNING"]

\* job.status = 'RUNNING'; job.started_at = timezone.now()
MarkRunning(job, now) ==
    [job EXCEPT !.status = "RUNNING", !.started_at = now]

\* ...; job.save()
WorkerMarkRunning ==
    /\ run.pc = "mark_running"
    /\ LET job == MarkRunning(run.job, Now("run", run.n, "started_at"))
       IN /\ SaveJob(job)
          /\ run' = [run EXCEPT !.pc = "backend_calls", !.job = job]
    /\ UNCHANGED <<dataFile, results, queue, create, cancel, dataFiles, api, call>>

\* BackendCalls going on to run_analysis after read_file raised.
BackendCallsKeepGoing(job, file, installed, analysis_ok, plot_ok) ==
    LET backend == get_backend(job.backend, installed)
        result_data == run_analysis(job.backend, job.analysis_type, analysis_ok)
        plot_result == generate_plot(job.backend, job.analysis_type,
                                     result_data.val, plot_ok)
        Out(res, calls, rd, pr) ==
            [ok |-> res.ok, err |-> res.err, calls |-> calls,
             result_data |-> rd, plot_result |-> pr]
    IN  IF ~backend.ok
        THEN Out(backend, <<"get_backend">>, {}, {})
        ELSE IF ~result_data.ok
        THEN Out(result_data, <<"get_backend", "read_file", "run_analysis">>, {}, {})
        ELSE Out(plot_result,
                 <<"get_backend", "read_file", "run_analysis", "generate_plot">>,
                 result_data.val,
                 plot_result.val)

\* Lines 34-54: the backend is resolved, then its three calls are made in
\* order; the first one that raises ends the sequence.  installed,
\* analysis_ok, plot_ok: what the environment lets succeed.
BackendCalls(job, file, installed, analysis_ok, plot_ok) ==
    LET backend == get_backend(job.backend, installed)
        data == read_file(job.backend, file)
        result_data == run_analysis(job.backend, job.analysis_type, analysis_ok)
        plot_result == generate_plot(job.backend, job.analysis_type,
                                     result_data.val, plot_ok)
        Out(res, calls, rd, pr) ==
            [ok |-> res.ok, err |-> res.err, calls |-> calls,
             result_data |-> rd, plot_result |-> pr]
    IN  IF ~backend.ok
        THEN Out(backend, <<"get_backend">>, {}, {})
        ELSE IF ~data.ok
        THEN Out(data, <<"get_backend", "read_file">>, {}, {})
        ELSE IF ~result_data.ok
        THEN Out(result_data, <<"get_backend", "read_file", "run_analysis">>, {}, {})
        ELSE Out(plot_result,
                 <<"get_backend", "read_file", "run_analysis", "generate_plot">>,
                 result_data.val,
                 plot_result.val)

WorkerBackendCalls ==
    /\ run.pc = "backend_calls"
    /\ \E installed \in BOOLEAN, analysis_ok \in BOOLEAN, plot_ok \in BOOLEAN :
          LET out == BackendCalls(run.job, dataFile, installed, analysis_ok, plot_ok)
              r == [run EXCEPT !.calls = out.calls]
          IN run' = IF out.ok
                    THEN [r EXCEPT !.pc = "materialize",
                                   !.result_data = out.result_data,
                                   !.plot_result = out.plot_result]
                    ELSE Except(r, out.err)
    /\ UNCHANGED <<dataFile, jobs, results, queue, create, cancel, dataFiles, api, call>>

\* The text of an exception raised by the filesystem or the database.
PersistError == "cannot write"

\* Lines 56-73: the HTML file, then the plot row.
PlotResult(r, now) ==
    NewResult(r.job.id, "plot",
              ResultFileName(r.job.id, r.job.analysis_type, now, ".html"),
              IF "json_data" \in r.plot_result THEN "json_data" ELSE NoValue,
              r.n)

\* Lines 76-87: the JSON file, then the data row.
DataResult(r, now) ==
    NewResult(r.job.id, "data",
              ResultFileName(r.job.id, r.job.analysis_type, now, ".json"),
              NoValue, r.n)

\* StatsResult without the content argument.
StatsResultEmpty(r) ==
    NewResult(r.job.id, "stats", NoFile, NoValue, r.n)

\* Lines 90-95: the stats row.
StatsResult(r) ==
    NewResult(r.job.id, "stats", NoFile, "stats", r.n)

\* What a write may fail at: nothing, or the file or row of one result type.
FailPoints == {"none", "plot", "data", "stats"}

\* Materialize with the stats row created first and the plot row last.
MaterializeStatsFirst(r, fail_at) ==
    LET has_data == "data" \in r.result_data
        has_stats == "stats" \in r.result_data
        plot == <<PlotResult(r, Now("run", r.n, "plot_filename"))>>
        data == IF has_data THEN <<DataResult(r, Now("run", r.n, "data_filename"))>>
                ELSE << >>
        stats == IF has_stats THEN <<StatsResult(r)>> ELSE << >>
    IN  IF fail_at = "none"
        THEN [ok |-> TRUE, err |-> NoText, rows |-> stats \o data \o plot]
        ELSE [ok |-> FALSE, err |-> <<PersistError, fail_at>>, rows |-> << >>]

\* Materialize with every write's exception swallowed: the rows whose write
\* succeeded are kept and the run goes on.
MaterializeSwallow(r, fail_at) ==
    LET has_data == "data" \in r.result_data
        has_stats == "stats" \in r.result_data
        plot == IF fail_at # "plot"
                THEN <<PlotResult(r, Now("run", r.n, "plot_filename"))>> ELSE << >>
        data == IF has_data /\ fail_at # "data"
                THEN <<DataResult(r, Now("run", r.n, "data_filename"))>> ELSE << >>
        stats == IF has_stats /\ fail_at # "stats" THEN <<StatsResult(r)>> ELSE << >>
    IN  [ok |-> TRUE, err |-> NoText, rows |-> plot \o data \o stats]

\* Materialize with the rows of a failed run deleted again.
MaterializeRollback(r, fail_at) ==
    LET has_data == "data" \in r.result_data
        has_stats == "stats" \in r.result_data
        plot == <<PlotResult(r, Now("run", r.n, "plot_filename"))>>
        data == IF has_data THEN <<DataResult(r, Now("run", r.n, "data_filename"))>>
                ELSE << >>
        stats == IF has_stats THEN <<StatsResult(r)>> ELSE << >>
    IN  IF \/ fail_at = "plot"
           \/ fail_at = "data" /\ has_data
           \/ fail_at = "stats" /\ has_stats
        THEN [ok |-> FALSE, err |-> <<PersistError, fail_at>>, rows |-> << >>]
        ELSE [ok |-> TRUE, err |-> NoText, rows |-> plot \o data \o stats]

\* Lines 56-95: the rows created, in order, up to the first write that raises.
Materialize(r, fail_at) ==
    LET has_data == "data" \in r.result_data
        has_stats == "stats" \in r.result_data
        plot == <<PlotResult(r, Now("run", r.n, "plot_filename"))>>
        data == IF has_data THEN <<DataResult(r, Now("run", r.n, "data_filename"))>>
                ELSE << >>
        stats == IF has_stats THEN <<StatsResult(r)>> ELSE << >>
    IN  IF fail_at = "plot"
        THEN [ok |-> FALSE, err |-> <<PersistError, "plot">>, rows |-> << >>]
        ELSE IF fail_at = "data" /\ has_data
        THEN [ok |-> FALSE, err |-> <<PersistError, "data">>, rows |-> plot]
        ELSE IF fail_at = "stats" /\ has_stats
        THEN [ok |-> FALSE, err |-> <<PersistError, "stats">>, rows |-> plot \o data]
        ELSE [ok |-> TRUE, err |-> NoText, rows |-> plot \o data \o stats]

WorkerMaterialize ==
    /\ run.pc = "materialize"
    /\ \E fail_at \in FailPoints :
          LET out == Materialize(run, fail_at)
          IN /\ results' = results \o out.rows
             /\ run' = IF out.ok THEN [run EXCEPT !.pc = "mark_success"]
                       ELSE Except(run, out.err)
    /\ UNCHANGED <<dataFile, jobs, queue, create, cancel, dataFiles, api, call>>

\* job.status = 'SUCCESS'; job.finished_at = timezone.now()
MarkSuccess(job, now) ==
    [job EXCEPT !.status = "SUCCESS", !.finished_at = now]

\* ...; job.save(); return job.id
WorkerMarkSuccess ==
    /\ run.pc = "mark_success"
    /\ LET job == MarkSuccess(run.job, Now("run", run.n, "finished_at"))
       IN /\ SaveJob(job)
          /\ run' = [run EXCEPT !.pc = "returned", !.job = job]
    /\ UNCHANGED <<dataFile, results, queue, create, cancel, dataFiles, api, call>>

\* except Exception as e: ... job = AnalysisJob.objects.get(pk=job_id);
\* when the query raises: except Exception as nested_e, then raise.
WorkerFailGet ==
    /\ run.pc = "except"
    /\ \E db_ok \in BOOLEAN :
          run' = IF db_ok /\ run.job_id \in DOMAIN jobs
                 THEN [run EXCEPT !.pc = "fail_save", !.job = jobs[run.job_id]]
                 ELSE [run EXCEPT !.pc = "raised", !.nested = TRUE]
    /\ UNCHANGED <<dataFile, jobs, results, queue, create, cancel, dataFiles, api, call>>

\* MarkFailed without the assignment of error_message.
MarkFailedNoText(job, text, now) ==
    [job EXCEPT !.status = "FAILED", !.finished_at = now]

\* job.status = 'FAILED'; job.error_message = str(e);
\* job.finished_at = timezone.now()
MarkFailed(job, text, now) ==
    [job EXCEPT !.status = "FAILED", !.error_message = text, !.finished_at = now]

\* WorkerFailSave with a failing save that has written the row all the same.
WorkerFailSaveTorn ==
    /\ run.pc = "fail_save"
    /\ LET job == MarkFailed(run.job, run.err, Now("run", run.n, "finished_at"))
       IN \E db_ok \in BOOLEAN :
             /\ SaveJob(job)
             /\ run' = [run EXCEPT !.pc = "raised", !.job = job, !.nested = ~db_ok]
    /\ UNCHANGED <<dataFile, results, queue, create, cancel, dataFiles, api, call>>

\* ...; job.save(), or except Exception as nested_e when it raises; then raise.
WorkerFailSave ==
    /\ run.pc = "fail_save"
    /\ LET job == MarkFailed(run.job, run.err, Now("run", run.n, "finished_at"))
       IN \E db_ok \in BOOLEAN :
             IF db_ok
             THEN /\ SaveJob(job)
                  /\ run' = [run EXCEPT !.pc = "raised", !.job = job]
             ELSE /\ UNCHANGED jobs
                  /\ run' = [run EXCEPT !.pc = "raised", !.job = job, !.nested = TRUE]
    /\ UNCHANGED <<dataFile, results, queue, create, cancel, dataFiles, api, call>>

(***************************************************************************)
(* views.py: AnalysisJobViewSet.cancel                                     *)
(***************************************************************************)
CancelledText == <<"Job cancelled by user">>

\* job = self.get_object()
CancelGet ==
    /\ cancel.pc \in {"idle", "done"}
    /\ cancel.n < MaxCancels
    /\ Len(jobs) > 0
    /\ cancel' = [FreshCancel(cancel.n + 1) EXCEPT !.pc = "fetched",
                                                   !.job = jobs[Len(jobs)]]
    /\ UNCHANGED <<dataFile, jobs, results, queue, create, run, dataFiles, api, call>>

\* Cancellable without the status test.
CancellableAlways(job) == job.status \in STATUS_CHOICES

\* if job.status in ['PENDING', 'RUNNING']
Cancellable(job) == job.status \in {"PENDING", "RUNNING"}

\* job.status = 'FAILED'; job.error_message = 'Job cancelled by user';
\* job.finished_at = timezone.now()
Cancelled(job, now) ==
    [job EXCEPT !.status = "FAILED", !.error_message = CancelledText,
                !.finished_at = now]

\* ...; job.save(); 200, or else 400
CancelRespond ==
    /\ cancel.pc = "fetched"
    /\ IF Cancellable(cancel.job)
       THEN LET job == Cancelled(cancel.job, Now("cancel", cancel.n, "finished_at"))
            IN /\ SaveJob(job)
                          /\ cancel' = [cancel EXCEPT !.pc = "done", !.job = job,
                                           !.response = "200"]
       ELSE /\ UNCHANGED jobs
            /\ cancel' = [cancel EXCEPT !.pc = "done", !.response = "400"]
    /\ UNCHANGED <<dataFile, results, queue, create, run, dataFiles, api, call>>

(***************************************************************************)
(* views.py: AnalysisJobViewSet.status, requested by the job's owner, and  *)
(* data_app/permissions.py.  The request is one database read.             *)
(***************************************************************************)
SAFE_METHODS == {"GET", "HEAD", "OPTIONS"}

\* IsOwnerOrReadOnly.has_object_permission; obj is a row, its attributes the
\* fields of its record.
has_object_permission(method, obj, user) ==
    IF method \in SAFE_METHODS
    THEN IF "is_public" \in DOMAIN obj
         THEN Ok(obj.is_public \/ obj.user = user)
         ELSE Raise(<<"AttributeError: object has no attribute ", "is_public">>)
    ELSE Ok(obj.user = user)

\* Response({'status': ..., 'started_at': ..., 'finished_at': ..., 'error_message': ...})
StatusBody(job) ==
    [status |-> job.status, started_at |-> job.started_at,
     finished_at |-> job.finished_at, error_message |-> job.error_message]

\* job = self.get_object(): the row, then check_object_permissions on it.
GetStatus ==
    /\ Len(jobs) > 0
    /\ LET job == jobs[Len(jobs)]
           perm == has_object_permission("GET", job, RequestUser)
       IN api' = IF ~perm.ok
                 THEN [endpoint |-> "status", code |-> "500", body |-> perm.err]
                 ELSE IF ~perm.val
                 THEN [endpoint |-> "status", code |-> "403", body |-> NoText]
                 ELSE [endpoint |-> "status", code |-> "200", body |-> StatusBody(job)]
    /\ UNCHANGED <<dataFile, jobs, results, queue, create, run, cancel, dataFiles, call>>

(***************************************************************************)
(* data_app/views.py: DataFileViewSet.destroy (ModelViewSet), requested by *)
(* the file's owner, under AnalysisJob.data_file's on_delete=PROTECT.      *)
(***************************************************************************)
\* Protected without the on_delete rule.
ProtectedNever(file_id) == FALSE

\* on_delete=models.PROTECT: some AnalysisJob row references the file.
Protected(file_id) == \E i \in DOMAIN jobs : jobs[i].data_file = file_id

\* instance.delete(): ProtectedError while a job references the file.
DestroyDataFile ==
    /\ IF ~DataFileExists
       THEN /\ api' = [endpoint |-> "destroy", code |-> "404", body |-> NoText]
            /\ UNCHANGED dataFiles
       ELSE IF Protected(DataFileId)
       THEN /\ api' = [endpoint |-> "destroy", code |-> "500",
                                     body |-> <<"ProtectedError">>]
            /\ UNCHANGED dataFiles
       ELSE /\ api' = [endpoint |-> "destroy", code |-> "204", body |-> NoText]
            /\ dataFiles' = dataFiles \ {DataFileId}
    /\ UNCHANGED <<dataFile, jobs, results, queue, create, run, cancel, call>>

(***************************************************************************)
(* The system                                                              *)
(***************************************************************************)
Next ==
    \/ CreateRejected
    \/ CreateSave
    \/ CreateDelay
    \/ CreateSaveTaskId
    \/ WorkerGet
    \/ WorkerMarkRunning
    \/ WorkerBackendCalls
    \/ WorkerMaterialize
    \/ WorkerMarkSuccess
    \/ WorkerFailGet
    \/ WorkerFailSave
    \/ CancelGet
    \/ CancelRespond

Spec == Init /\ [][Next]_vars

\* The create request and the worker together with the status endpoint and
\* the DataFile destroy endpoint.
ApiNext ==
    \/ CreateRejected
    \/ CreateSave
    \/ CreateDelay
    \/ CreateSaveTaskId
    \/ WorkerGet
    \/ WorkerMarkRunning
    \/ WorkerBackendCalls
    \/ WorkerMaterialize
    \/ WorkerMarkSuccess
    \/ WorkerFailGet
    \/ WorkerFailSave
    \/ GetStatus
    \/ DestroyDataFile

ApiSpec == Init /\ [][ApiNext]_vars

\* The broker delivers the message at least once; the request handlers and
\* the worker are scheduled fairly, and every backend call returns or raises.
Fairness ==
    /\ WF_vars(CreateDelay)
    /\ WF_vars(CreateSaveTaskId)
    /\ WF_vars(WorkerGet /\ run.n = 0)
    /\ WF_vars(WorkerMarkRunning)
    /\ WF_vars(WorkerBackendCalls)
    /\ WF_vars(WorkerMaterialize)
    /\ WF_vars(WorkerMarkSuccess)
    /\ WF_vars(WorkerFailGet)
    /\ WF_vars(WorkerFailSave)
    /\ WF_vars(CancelRespond)

FairSpec == Spec /\ Fairness

(***************************************************************************)
(* analysis_core/param_defs.py: the parameter classes and their schema.    *)
(* A parameter is its param class name, default, doc, bounds and objects;  *)
(* numerals are written as they print.                                     *)
(***************************************************************************)
\* p.bounds is None.
NoBounds == << >>

P(type, default, doc, bounds, objects) ==
    [type |-> type, default |-> default, doc |-> doc, bounds |-> bounds,
     objects |-> objects]

\* BaseAnalysis: description and name.
BaseAnalysis ==
    << <<"description", P("String", "", "Description of this analysis", NoBounds, << >>)>>,
       <<"name", P("String", "", "Name of this analysis", NoBounds, << >>)>> >>

PowerSpectrumAnalysis ==
    BaseAnalysis \o
    << <<"segment_length", P("Integer", "1024", "Segment length for Fourier transform",
                             <<"1", "None">>, << >>)>>,
       <<"norm", P("ObjectSelector", "leahy", "Normalization method", NoBounds,
                   <<"leahy", "rms", "none">>)>>,
       <<"dt", P("Number", "None", "Time resolution of the light curve", NoBounds, << >>)>>,
       <<"gti", P("Array", "None", "Good Time Intervals", NoBounds, << >>)>>,
       <<"average", P("Boolean", "True",
                      "Average the segments to produce a smoother spectrum",
                      <<"0", "1">>, << >>)>>,
       <<"freq_range", P("Range", "(0, None)", "Frequency range to calculate (min, max)",
                         NoBounds, << >>)>> >>

FourierTransformAnalysis ==
    BaseAnalysis \o
    << <<"segment_length", P("Integer", "1024", "Segment length for Fourier transform",
                             <<"1", "None">>, << >>)>>,
       <<"window", P("ObjectSelector", "hanning", "Window function to apply", NoBounds,
                     <<"hanning", "hamming", "blackman", "bartlett", "none">>)>>,
       <<"detrend", P("Boolean", "True", "Whether to detrend the data before transform",
                      <<"0", "1">>, << >>)>> >>

LombScargleAnalysis ==
    BaseAnalysis \o
    << <<"minimum_frequency", P("Number", "None", "Minimum frequency to analyze",
                                NoBounds, << >>)>>,
       <<"maximum_frequency", P("Number", "None", "Maximum frequency to analyze",
                                NoBounds, << >>)>>,
       <<"nyquist_factor", P("Number", "1", "Multiple of Nyquist frequency to use as maximum",
                             <<"0.1", "10">>, << >>)>>,
       <<"samples_per_peak", P("Integer", "5", "Number of samples per peak",
                               <<"1", "100">>, << >>)>>,
       <<"normalization", P("ObjectSelector", "standard", "Normalization method", NoBounds,
                            <<"standard", "model", "log", "psd">>)>> >>

RebinAnalysis ==
    BaseAnalysis \o
    << <<"bin_time", P("Number", "1.0", "New time bin size", <<"0", "None">>, << >>)>>,
       <<"method", P("ObjectSelector", "sum", "Method for combining values", NoBounds,
                     <<"sum", "mean", "average">>)>> >>

PDSSimulationAnalysis ==
    BaseAnalysis \o
    << <<"model", P("ObjectSelector", "powerlaw", "PDS model type", NoBounds,
                    <<"powerlaw", "broken_powerlaw", "lorentzian">>)>>,
       <<"mean", P("Number", "100.0", "Mean count rate", NoBounds, << >>)>>,
       <<"rms", P("Number", "0.1", "Fractional RMS amplitude", <<"0", "1">>, << >>)>>,
       <<"red_noise_index", P("Number", "1.0", "Power-law index", NoBounds, << >>)>>,
       <<"dt", P("Number", "0.001", "Time resolution", <<"0", "None">>, << >>)>>,
       <<"tlen", P("Number", "1000.0", "Length of light curve to simulate",
                   <<"0", "None">>, << >>)>>,
       <<"break_freq", P("Number", "None", "Break frequency for broken power law",
                         NoBounds, << >>)>> >>

CrossSpectrumAnalysis ==
    BaseAnalysis \o
    << <<"segment_length", P("Integer", "1024", "Segment length for Fourier transform",
                             <<"1", "None">>, << >>)>>,
       <<"norm", P("ObjectSelector", "none", "Normalization method", NoBounds,
                   <<"none", "leahy", "frac">>)>>,
       <<"gti", P("Array", "None", "Good Time Intervals", NoBounds, << >>)>>,
       <<"dt", P("Number", "None", "Time resolution", NoBounds, << >>)>> >>

ANALYSIS_CLASSES ==
    [t \in {"power_spectrum", "fourier_transform", "lomb_scargle", "rebin",
            "pds_simulation", "cross_spectrum"} |->
        CASE t = "power_spectrum" -> PowerSpectrumAnalysis
          [] t = "fourier_transform" -> FourierTransformAnalysis
          [] t = "lomb_scargle" -> LombScargleAnalysis
          [] t = "rebin" -> RebinAnalysis
          [] t = "pds_simulation" -> PDSSimulationAnalysis
          [] t = "cross_spectrum" -> CrossSpectrumAnalysis]

\* hasattr(p, 'bounds'): the numeric param classes have the slot, set or None;
\* param.Boolean has it, set to (0, 1), in the releases where boolean_bounds.
HasBounds(p, boolean_bounds) ==
    \/ p.type \in {"Number", "Integer", "Range"}
    \/ p.type = "Boolean" /\ boolean_bounds

\* The dict built for one parameter: the keys it has and their values.
ParamSchema(p, boolean_bounds) ==
    LET bounded == HasBounds(p, boolean_bounds)
        selector == p.objects # << >>
    IN [keys |-> {"type", "default", "doc"}
                    \cup (IF bounded THEN {"min", "max"} ELSE {})
                    \cup (IF selector THEN {"allowed_values"} ELSE {}),
        type |-> p.type, default |-> p.default, doc |-> p.doc,
        min |-> IF bounded THEN p.bounds[1] ELSE NoValue,
        max |-> IF bounded THEN p.bounds[2] ELSE NoValue,
        allowed_values |-> p.objects]

\* BaseAnalysis.get_param_schema: the loop from parameter i on, schema so far.
RECURSIVE get_param_schema(_, _, _, _)
get_param_schema(params, i, schema, boolean_bounds) ==
    IF i > Len(params)
    THEN Ok(schema)
    ELSE LET name == params[i][1]
             p == params[i][2]
         IN IF name \in {"name", "description"}
            THEN get_param_schema(params, i + 1, schema, boolean_bounds)
            ELSE IF HasBounds(p, boolean_bounds) /\ p.bounds = NoBounds
            THEN Raise(<<"TypeError: 'NoneType' object is not subscriptable">>)
            ELSE get_param_schema(params, i + 1,
                                  schema \cup {<<name, ParamSchema(p, boolean_bounds)>>},
                                  boolean_bounds)

get_analysis_params(analysis_type, boolean_bounds) ==
    IF analysis_type \notin DOMAIN ANALYSIS_CLASSES
    THEN Raise(<<"Unknown analysis type: ", analysis_type>>)
    ELSE get_param_schema(ANALYSIS_CLASSES[analysis_type], 1, {}, boolean_bounds)

(***************************************************************************)
(* analysis_core: the peak lists of the periodograms.  found is the        *)
(* sequence of the powers of the peaks the peak finder returns, in its     *)
(* order (ascending frequency); a peak is named by its place in found.     *)
(***************************************************************************)
\* Peaks the peak finder may return.
MaxPeaks == 6
\* Distinct values of a peak's power.
MaxPower == 2

PeakInputs == UNION {[1..n -> 1..MaxPower] : n \in 0..MaxPeaks}

\* idx put into sorted (indices in ascending power) behind the equal powers.
RECURSIVE InsertByPower(_, _, _)
InsertByPower(sorted, idx, powers) ==
    IF sorted = << >> \/ powers[sorted[Len(sorted)]] <= powers[idx]
    THEN Append(sorted, idx)
    ELSE Append(InsertByPower(SubSeq(sorted, 1, Len(sorted) - 1), idx, powers),
                sorted[Len(sorted)])

\* np.argsort(peak_powers): the indices in ascending order of power.
RECURSIVE argsort(_, _)
argsort(powers, n) ==
    IF n = 0 THEN << >> ELSE InsertByPower(argsort(powers, n - 1), n, powers)

\* seq[::-1]
Reversed(seq) == [i \in 1..Len(seq) |-> seq[Len(seq) + 1 - i]]

\* seq[:5]
FirstFive(seq) == SubSeq(seq, 1, IF Len(seq) < 5 THEN Len(seq) ELSE 5)

\* StingrayBackend._run_lomb_scargle: sorted_peak_idx, then top_peaks.
StingrayTopPeaks(found) ==
    LET sorted_peak_idx == Reversed(argsort(found, Len(found)))
        top == FirstFive(sorted_peak_idx)
    IN [k \in 1..Len(top) |-> [frequency |-> top[k], power |-> found[top[k]]]]

\* AstropyBackend._run_lomb_scargle: the same with the test
\* idx < len(sorted_peak_idx) on the zero-based idx.
AstropyTopPeaks(found) ==
    LET sorted_peak_idx == Reversed(argsort(found, Len(found)))
        top == SelectSeq(FirstFive(sorted_peak_idx),
                         LAMBDA idx : idx - 1 < Len(sorted_peak_idx))
    IN [k \in 1..Len(top) |-> [frequency |-> top[k], power |-> found[top[k]]]]

\* LightkurveBackend._run_periodogram: every peak pg.find_peaks returns, in
\* its order, or no peak when the call raises.
LightkurveTopPeaks(found, finder_ok) ==
    IF finder_ok
    THEN [k \in 1..Len(found) |-> [frequency |-> k, power |-> found[k]]]
    ELSE << >>

top_peaks(backend, found, finder_ok) ==
    CASE backend = "stingray" -> StingrayTopPeaks(found)
      [] backend = "astropy" -> AstropyTopPeaks(found)
      [] backend = "lightkurve" -> LightkurveTopPeaks(found, finder_ok)

(***************************************************************************)
(* analysis_core: _run_rebin of the three backends.  time is the set of    *)
(* the series' instants; primary_ok: the library's rebin call returns;     *)
(* fallback_ok: the pandas binning returns.                                *)
(***************************************************************************)
\* Latest instant of a series.
MaxTime == 3
\* Largest bin_time.
MaxBinTime == 2

TimeInputs == SUBSET (0..MaxTime) \ {{}}

SetMin(S) == CHOOSE x \in S : \A y \in S : x <= y
SetMax(S) == CHOOSE x \in S : \A y \in S : y <= x

\* np.arange(start, stop, step): start + k * step for the k with a value below stop.
arange(start, stop, step) ==
    LET n == IF stop <= start THEN 0 ELSE (stop - start + step - 1) \div step
    IN [k \in 1..n |-> start + (k - 1) * step]

\* What _run_rebin returns or raises, and the bin edges it computed itself.
RebinReturn(r, bin_edges) ==
    [ok |-> r.ok, val |-> r.val, err |-> r.err, bin_edges |-> bin_edges]

StingrayRunRebin(time, bin_time, primary_ok) ==
    RebinReturn(Computed({"data", "stats", "df", "metadata"}, primary_ok), << >>)

LightkurveRunRebin(time, bin_time, primary_ok) ==
    RebinReturn(Computed({"data", "stats", "df", "metadata"}, primary_ok), << >>)

\* try: aggregate_downsample ... except Exception: pd.cut on bin_edges ...
AstropyRunRebin(time, bin_time, primary_ok, fallback_ok) ==
    IF primary_ok
    THEN RebinReturn(Ok({"data", "stats", "df", "metadata"}), << >>)
    ELSE LET bin_edges == arange(SetMin(time), SetMax(time) + bin_time, bin_time)
         IN RebinReturn(Computed({"data", "stats", "df", "metadata", "metadata.note"},
                                 fallback_ok),
                        bin_edges)

run_rebin(backend, time, bin_time, primary_ok, fallback_ok) ==
    CASE backend = "stingray" -> StingrayRunRebin(time, bin_time, primary_ok)
      [] backend = "astropy" -> AstropyRunRebin(time, bin_time, primary_ok, fallback_ok)
      [] backend = "lightkurve" -> LightkurveRunRebin(time, bin_time, primary_ok)

(***************************************************************************)
(* analysis_core: the names of the sequences in the data section of what   *)
(* run_analysis returns.                                                   *)
(***************************************************************************)
DataSection(backend, analysis_type) ==
    CASE backend = "stingray" /\ analysis_type = "power_spectrum" ->
            {"frequency", "power", "power_err"}
      [] backend = "stingray" /\ analysis_type = "lomb_scargle" -> {"frequency", "power"}
      [] backend = "stingray" /\ analysis_type = "rebin" -> {"time", "counts", "counts_err"}
      [] backend = "stingray" /\ analysis_type = "pds_simulation" ->
            {"time", "counts", "frequency", "power"}
      [] backend \in {"stingray", "astropy"} /\ analysis_type = "fourier_transform" ->
            {"frequency", "real", "imag", "amplitude"}
      [] backend = "astropy" /\ analysis_type \in {"lomb_scargle", "power_spectrum"} ->
            {"frequency", "power"}
      [] backend = "astropy" /\ analysis_type = "rebin" -> {"time", "flux"}
      [] backend = "lightkurve" /\ analysis_type \in
            {"power_spectrum", "lomb_scargle", "fourier_transform"} -> {"frequency", "power"}
      [] backend = "lightkurve" /\ analysis_type = "rebin" -> {"time", "flux", "flux_err"}
      [] OTHER -> {}

(***************************************************************************)
(* analysis_core: the columns of the data frames a RawResult carries for   *)
(* plotting ("<frame>.<column>"), and the columns the type's renderer      *)
(* reads from them.                                                        *)
(***************************************************************************)
FrameColumns(backend, analysis_type) ==
    CASE backend = "stingray" /\ analysis_type = "power_spectrum" ->
            {"df.frequency", "df.power", "df.power_err"}
      [] backend = "stingray" /\ analysis_type = "lomb_scargle" ->
            {"df.frequency", "df.power"}
      [] backend = "stingray" /\ analysis_type = "rebin" ->
            {"df.time", "df.counts", "df.counts_err"}
      [] backend = "stingray" /\ analysis_type = "pds_simulation" ->
            {"lc_df.time", "lc_df.counts", "ps_df.frequency", "ps_df.power"}
      [] backend \in {"stingray", "astropy"} /\ analysis_type = "fourier_transform" ->
            {"df.frequency", "df.real", "df.imag", "df.amplitude"}
      [] backend = "astropy" /\ analysis_type \in {"lomb_scargle", "power_spectrum"} ->
            {"df.frequency", "df.power"}
      [] backend = "astropy" /\ analysis_type = "rebin" -> {"df.time", "df.flux"}
      [] backend = "lightkurve" /\ analysis_type \in
            {"power_spectrum", "lomb_scargle", "fourier_transform"} ->
            {"df.frequency", "df.power"}
      [] backend = "lightkurve" /\ analysis_type = "rebin" ->
            {"df.time", "df.flux", "df.flux_err"}
      [] OTHER -> {}

RendererColumns(backend, analysis_type) ==
    CASE analysis_type = "fourier_transform" /\ backend \in {"stingray", "astropy"} ->
            {"df.frequency", "df.amplitude", "df.real", "df.imag"}
      [] analysis_type \in {"power_spectrum", "lomb_scargle", "fourier_transform"} ->
            {"df.frequency", "df.power"}
      [] analysis_type = "rebin" /\ backend = "stingray" -> {"df.time", "df.counts"}
      [] analysis_type = "rebin" -> {"df.time", "df.flux"}
      [] analysis_type = "pds_simulation" /\ backend = "stingray" ->
            {"lc_df.time", "lc_df.counts", "ps_df.frequency", "ps_df.power"}
      [] OTHER -> {}

(***************************************************************************)
(* analysis_core: the parameters the backends read.  The task passes the   *)
(* job's parameters on as they are (run_analysis(analysis_type, data,      *)
(* **parameters)); an implementation reads each parameter with             *)
(* params.get(name, default).  A default is written as it prints.          *)
(***************************************************************************)
\* What a job's parameters may hold: any of these name-value pairs.
ParameterInputs ==
    SUBSET {<<"method", "average">>, <<"normalization", "psd">>, <<"bin_time", "2.0">>}

\* params.get(name, default)
params_get(params, name, default) ==
    IF \E kv \in params : kv[1] = name
    THEN (CHOOSE kv \in params : kv[1] = name)[2]
    ELSE default

\* dt = params.get('dt', None) or ...: a dt of None is then replaced by the
\* metadata's dt or an estimate from the data.
StingrayLightcurveDt == <<"dt", "None">>

\* The params.get(name, default) of the implementation a type is dispatched to
\* (the lorentzian model's centroid and width left aside).
StingrayParams(analysis_type) ==
    CASE analysis_type = "power_spectrum" ->
            <<StingrayLightcurveDt, <<"segment_length", "1024">>, <<"norm", "leahy">>,
              <<"average", "True">>, <<"freq_range", "(0, None)">> >>
      [] analysis_type = "fourier_transform" ->
            <<StingrayLightcurveDt, <<"segment_length", "1024">>,
              <<"window", "hanning">>, <<"detrend", "True">> >>
      [] analysis_type = "lomb_scargle" ->
            <<StingrayLightcurveDt, <<"minimum_frequency", "None">>,
              <<"maximum_frequency", "None">>, <<"nyquist_factor", "1">>,
              <<"samples_per_peak", "5">>, <<"normalization", "standard">> >>
      [] analysis_type = "rebin" ->
            <<StingrayLightcurveDt, <<"bin_time", "1.0">>, <<"method", "sum">> >>
      [] analysis_type = "pds_simulation" ->
            << <<"model", "powerlaw">>, <<"mean", "100.0">>, <<"rms", "0.1">>,
               <<"red_noise_index", "1.0">>, <<"dt", "0.001">>, <<"tlen", "1000.0">>,
               <<"break_freq", "None">> >>
      [] OTHER -> << >>

AstropyParams(analysis_type) ==
    CASE analysis_type \in {"lomb_scargle", "power_spectrum"} ->
            << <<"minimum_frequency", "None">>, <<"maximum_frequency", "None">>,
               <<"normalization", "standard">>, <<"samples_per_peak", "5">> >>
      [] analysis_type = "fourier_transform" ->
            << <<"window", "hanning">>, <<"detrend", "True">> >>
      [] analysis_type = "rebin" ->
            << <<"bin_time", "1.0">>, <<"method", "mean">> >>
      [] OTHER -> << >>

LightkurveParams(analysis_type) ==
    CASE analysis_type \in {"power_spectrum", "lomb_scargle", "fourier_transform"} ->
            << <<"minimum_frequency", "None">>, <<"maximum_frequency", "None">>,
               <<"normalization", "amplitude">> >>
      [] analysis_type = "rebin" ->
            << <<"bin_time", "1.0">>, <<"method", "mean">> >>
      [] OTHER -> << >>

backend_params(backend, analysis_type) ==
    CASE backend = "stingray" -> StingrayParams(analysis_type)
      [] backend = "astropy" -> AstropyParams(analysis_type)
      [] backend = "lightkurve" -> LightkurveParams(analysis_type)

\* The values a run of the type works with: for every parameter the
\* implementation reads, the job's value or else the implementation's default.
run_params(backend, analysis_type, parameters) ==
    LET reads == backend_params(backend, analysis_type)
    IN {<<reads[i][1], params_get(parameters, reads[i][1], reads[i][2])>> :
           i \in 1..Len(reads)}

(***************************************************************************)
(* Direct calls of the analysis_core functions: a behaviour is one call,   *)
(* with its arguments and what it returns or raises.                       *)
(***************************************************************************)
\* Analysis types a caller may name: the model's choices and one more.
CallTypes == ANALYSIS_TYPE_CHOICES \cup {"wavelet"}

CallRunAnalysis ==
    /\ call = NoCall
    /\ \E backend \in BACKEND_CHOICES, analysis_type \in CallTypes, lib_ok \in BOOLEAN :
          call' = [fn |-> "run_analysis", backend |-> backend,
                   analysis_type |-> analysis_type, lib_ok |-> lib_ok,
                   ret |-> run_analysis(backend, analysis_type, lib_ok),
                   data |-> DataSection(backend, analysis_type)]
    /\ UNCHANGED <<dataFile, jobs, results, queue, create, run, cancel, dataFiles, api>>

\* result_data is what run_analysis of the same backend returned for some type.
CallGeneratePlot ==
    /\ call = NoCall
    /\ \E backend \in BACKEND_CHOICES, analysis_type \in CallTypes,
          of_type \in ANALYSIS_TYPE_CHOICES, lib_ok \in BOOLEAN :
          /\ run_analysis(backend, of_type, TRUE).ok
          /\ LET result_data == run_analysis(backend, of_type, TRUE).val
             IN call' = [fn |-> "generate_plot", backend |-> backend,
                         analysis_type |-> analysis_type, result_data |-> result_data,
                         lib_ok |-> lib_ok,
                         ret |-> generate_plot(backend, analysis_type, result_data, lib_ok)]
    /\ UNCHANGED <<dataFile, jobs, results, queue, create, run, cancel, dataFiles, api>>

CallGetAnalysisParams ==
    /\ call = NoCall
    /\ \E analysis_type \in CallTypes, boolean_bounds \in BOOLEAN :
          call' = [fn |-> "get_analysis_params", analysis_type |-> analysis_type,
                   boolean_bounds |-> boolean_bounds,
                   ret |-> get_analysis_params(analysis_type, boolean_bounds)]
    /\ UNCHANGED <<dataFile, jobs, results, queue, create, run, cancel, dataFiles, api>>

CallTopPeaks ==
    /\ call = NoCall
    /\ \E backend \in BACKEND_CHOICES, found \in PeakInputs, finder_ok \in BOOLEAN :
          call' = [fn |-> "top_peaks", backend |-> backend, found |-> found,
                   finder_ok |-> finder_ok,
                   ret |-> top_peaks(backend, found, finder_ok)]
    /\ UNCHANGED <<dataFile, jobs, results, queue, create, run, cancel, dataFiles, api>>

CallRebin ==
    /\ call = NoCall
    /\ \E backend \in BACKEND_CHOICES, time \in TimeInputs, bin_time \in 1..MaxBinTime,
          primary_ok \in BOOLEAN, fallback_ok \in BOOLEAN :
          call' = [fn |-> "rebin", backend |-> backend, time |-> time,
                   bin_time |-> bin_time, primary_ok |-> primary_ok,
                   fallback_ok |-> fallback_ok,
                   ret |-> run_rebin(backend, time, bin_time, primary_ok, fallback_ok)]
    /\ UNCHANGED <<dataFile, jobs, results, queue, create, run, cancel, dataFiles, api>>

\* run_analysis of a type the backend implements, for the parameters it runs with.
CallRunParams ==
    /\ call = NoCall
    /\ \E backend \in BACKEND_CHOICES, analysis_type \in ANALYSIS_TYPE_CHOICES,
          parameters \in ParameterInputs :
          /\ run_analysis(backend, analysis_type, TRUE).ok
          /\ call' = [fn |-> "run_params", backend |-> backend,
                      analysis_type |-> analysis_type, parameters |-> parameters,
                      ret |-> run_params(backend, analysis_type, parameters)]
    /\ UNCHANGED <<dataFile, jobs, results, queue, create, run, cancel, dataFiles, api>>

LibInit == Init /\ dataFile = [ext |-> ".csv", readable |-> TRUE]

LibNext ==
    \/ CallRunAnalysis
    \/ CallGeneratePlot
    \/ CallGetAnalysisParams
    \/ CallTopPeaks
    \/ CallRebin
    \/ CallRunParams

LibSpec == LibInit /\ [][LibNext]_vars

(***************************************************************************)
(* Properties                                                              *)
(***************************************************************************)
Terminal == {"SUCCESS", "FAILED"}

JobCreated == Len(jobs) > 0

\* The persisted row of the job the create request made.
Job == jobs[1]

\* Result rows of the job created by delivery n, of one type.
RowsOf(n, result_type) ==
    {i \in 1..Len(results) :
        /\ results[i].job = 1
        /\ results[i].by = n
        /\ results[i].result_type = result_type}

\* The step in which the current run leaves run_analysis with an exception.
RunRaises == run.pc \in {"except", "fail_save"} /\ run'.pc = "raised"

\* The step in which the cancel request is answered.
CancelAnswers == cancel.pc = "fetched" /\ cancel'.pc = "done"

\* C1 (as claimed): once the persisted status is SUCCESS or FAILED, no step
\* of any actor changes the status or any other field of the job row.
C1_TerminalAbsorbing ==
    [][(JobCreated /\ Job.status \in Terminal) => jobs' = jobs]_vars

\* C2 (as claimed): in every reachable state the job's error_message is
\* non-empty if and only if its persisted status is FAILED.
C2_ErrorMessageIffFailed ==
    JobCreated => (Job.error_message # NoText <=> Job.status = "FAILED")

\* C3 (as claimed): in every reachable state the job's finished_at is set if
\* and only if its persisted status is SUCCESS or FAILED.
C3_FinishedAtIffTerminal ==
    JobCreated => (Job.finished_at # NoTime <=> Job.status \in Terminal)

\* C4 (as claimed): a cancel answered while the persisted status is PENDING
\* or RUNNING returns ok, sets status FAILED, finished_at to the current time
\* and error_message to the cancelled text, and leaves every other field of
\* the row and the result rows as they were.
C4_CancelActive ==
    [][(CancelAnswers /\ Job.status \in {"PENDING", "RUNNING"}) =>
          /\ cancel'.response = "200"
          /\ jobs' = [jobs EXCEPT ![1] =
                 [Job EXCEPT !.status = "FAILED",
                             !.error_message = CancelledText,
                             !.finished_at = Now("cancel", cancel.n, "finished_at")]]
          /\ results' = results]_vars

\* C5: a cancel that reads the job with status SUCCESS or FAILED is answered
\* with an error and writes nothing: the job row and the result rows keep
\* their values.
C5_CancelTerminal ==
    [][(CancelAnswers /\ cancel.job.status \in Terminal) =>
          /\ cancel'.response = "400"
          /\ jobs' = jobs
          /\ results' = results]_vars

C5_Witness ==
    /\ cancel.pc = "done"
    /\ cancel.response = "400"
    /\ cancel.job.status = "SUCCESS"
    /\ Job.status = "SUCCESS"

\* C6: whenever the persisted status is SUCCESS, the run that wrote it has
\* already created its result rows: a plot row, a data row when the RawResult
\* of the job's backend and type has a data section, a stats row when it has
\* a stats section.
C6_ResultsBeforeSuccess ==
    (JobCreated /\ Job.status = "SUCCESS") =>
        LET n == Job.finished_at.n
            result_data == run_analysis(Job.backend, Job.analysis_type, TRUE).val
        IN /\ Job.finished_at.actor = "run"
           /\ RowsOf(n, "plot") # {}
           /\ "data" \in result_data => RowsOf(n, "data") # {}
           /\ "stats" \in result_data => RowsOf(n, "stats") # {}

C6_Witness ==
    /\ JobCreated
    /\ Job.status = "SUCCESS"
    /\ run.pc = "returned"
    /\ \A t \in RESULT_TYPE_CHOICES : RowsOf(run.n, t) # {}

\* C7 (as claimed): every run that ends with an exception leaves the job
\* persisted as FAILED, with finished_at set and error_message the text of
\* the exception, and the create request is not touched.
C7_AlwaysFailed ==
    [][RunRaises =>
          /\ jobs'[1].status = "FAILED"
          /\ jobs'[1].finished_at # NoTime
          /\ jobs'[1].error_message = run.err
          /\ create' = create]_vars

\* C7 (amended): a run that ends with an exception leaves the job persisted
\* as FAILED, with finished_at set and error_message the text of the
\* exception, unless re-fetching the job or saving the FAILED state raises
\* in turn: then the row is left as it was.  In both cases the create
\* request is not touched.
C7_FailedUnlessNested ==
    [][RunRaises =>
          /\ ~run'.nested =>
                /\ jobs'[1].status = "FAILED"
                /\ jobs'[1].finished_at # NoTime
                /\ jobs'[1].error_message = run.err
                /\ run.err # NoText
          /\ run'.nested => jobs' = jobs
          /\ create' = create]_vars

C7_Witness ==
    /\ run.pc = "raised"
    /\ ~run.nested
    /\ run.err = <<PersistError, "data">>
    /\ Job.status = "FAILED"
    /\ Job.error_message = run.err

\* The data file cannot be read by the job's backend.
ReadFails == JobCreated /\ ~read_file(Job.backend, dataFile).ok

\* C8 (as claimed), with no cancel request and a single delivery: when
\* read_file fails the persisted status only ever moves PENDING to RUNNING
\* to FAILED, the run ends with status FAILED and an error_message that
\* contains the read error's text (unless the FAILED write itself raised),
\* run_analysis and generate_plot are not called and no result row exists.
C8_ReadFailure ==
    [][(ReadFails /\ cancel'.n = 0 /\ run'.n <= 1) =>
          /\ jobs'[1].status # Job.status =>
                <<Job.status, jobs'[1].status>> \in
                    {<<"PENDING", "RUNNING">>, <<"RUNNING", "FAILED">>}
          /\ (RunRaises /\ ~run'.nested) =>
                /\ jobs'[1].status = "FAILED"
                /\ Contains(jobs'[1].error_message, read_file(Job.backend, dataFile).err)
          /\ \A i \in 1..Len(run'.calls) :
                run'.calls[i] \notin {"run_analysis", "generate_plot"}
          /\ results' = << >>]_vars

\* C9: a create request naming a backend outside BACKEND_CHOICES or an
\* analysis_type outside ANALYSIS_TYPE_CHOICES is answered with an error; no
\* job row exists and no task message was published.
C9_InvalidRejected ==
    (create.pc # "request"
        /\ ~(create.job.backend \in BACKEND_CHOICES
             /\ create.job.analysis_type \in ANALYSIS_TYPE_CHOICES)) =>
        /\ create.pc = "rejected"
        /\ create.response = "400"
        /\ jobs = << >>
        /\ queue = << >>

C9_Witness ==
    /\ create.pc = "rejected"
    /\ create.job.backend = "idl"
    /\ create.job.analysis_type = "rebin"

\* C10 (as claimed): once perform_create has completed, exactly one task
\* message was published, the job it returns is PENDING and the persisted
\* task_id is the id the task system returned, in every later state.
C10_TaskIdRecorded ==
    create.pc = "done" =>
        /\ create.job.status = "PENDING"
        /\ Len(queue) = 1
        /\ Job.task_id = create.task_id
        /\ Job.task_id = queue[1].id

JobTerminal == JobCreated /\ Job.status \in Terminal

\* C11 (as claimed): under Fairness, every created job eventually has
\* persisted status SUCCESS or FAILED and keeps it for ever.  Behaviours in
\* which the write of FAILED itself raised are set aside.
C11_EventuallyTerminal ==
    \/ <>(run.nested)
    \/ JobCreated ~> []JobTerminal

\* The step in which the status endpoint answers.
StatusAnswers == api' # api /\ api'.endpoint = "status"

\* C12 (as claimed): a status request by the job's owner is answered with
\* the mapping of status, started_at, finished_at and error_message equal to
\* the persisted values, and changes no job row and no result row.
C12_StatusReadsRow ==
    [][StatusAnswers =>
          /\ api'.code = "200"
          /\ api'.body = StatusBody(Job)
          /\ jobs' = jobs
          /\ results' = results]_vars

\* The step in which a run finishes its result files and rows without error.
Materializes == run.pc = "materialize" /\ run'.pc = "mark_success"

\* C13: a run that materializes without a persistence error appends to the
\* result table, in this order and nothing else: one plot row with the HTML
\* file's path and the artifact's JSON as content; one data row with the
\* JSON file's path and no content, if and only if the RawResult has a data
\* section; one stats row with the stats mapping as content and no file, if
\* and only if the RawResult has a stats section.
C13_MaterializationOrder ==
    [][Materializes =>
          LET has_data == "data" \in run.result_data
              has_stats == "stats" \in run.result_data
              n_data == IF has_data THEN 1 ELSE 0
              n_stats == IF has_stats THEN 1 ELSE 0
              first == Len(results) + 1
              new == SubSeq(results', first, Len(results'))
          IN /\ SubSeq(results', 1, Len(results)) = results
             /\ Len(new) = 1 + n_data + n_stats
             /\ \A i \in 1..Len(new) : new[i].job = run.job.id /\ new[i].by = run.n
             /\ new[1].result_type = "plot"
             /\ new[1].file_path # NoFile
             /\ new[1].file_path[Len(new[1].file_path)] = ".html"
             /\ new[1].content = "json_data"
             /\ "json_data" \in run.plot_result
             /\ has_data =>
                   /\ new[2].result_type = "data"
                   /\ new[2].file_path # NoFile
                   /\ new[2].file_path[Len(new[2].file_path)] = ".json"
                   /\ new[2].content = NoValue
             /\ has_stats =>
                   /\ new[1 + n_data + 1].result_type = "stats"
                   /\ new[1 + n_data + 1].file_path = NoFile
                   /\ new[1 + n_data + 1].content = "stats"]_vars

C13_Witness ==
    /\ run.pc = "mark_success"
    /\ run.n = 2
    /\ Len(results) = 6
    /\ <<results[4].result_type, results[5].result_type, results[6].result_type>>
          = <<"plot", "data", "stats">>
    /\ \A i \in 4..6 : results[i].by = 2

\* C14 (as claimed): every result row carries exactly one of content and
\* file_path: never both empty and never both set.
C14_ContentXorFile ==
    \A i \in 1..Len(results) :
        (results[i].file_path # NoFile) # (results[i].content # NoValue)

\* C14 (amended): every result row carries at least one of content and
\* file_path: a data row carries file_path and no content, a stats row
\* carries content and no file_path, a plot row carries both.
C14_ContentOrFile ==
    \A i \in 1..Len(results) :
        LET row == results[i]
        IN /\ row.file_path # NoFile \/ row.content # NoValue
           /\ row.result_type = "data" => row.file_path # NoFile /\ row.content = NoValue
           /\ row.result_type = "stats" => row.file_path = NoFile /\ row.content # NoValue
           /\ row.result_type = "plot" => row.file_path # NoFile /\ row.content # NoValue

C14_Witness ==
    /\ Len(results) >= 3
    /\ results[1].result_type = "plot" /\ results[1].content = "json_data"
    /\ results[2].result_type = "data" /\ results[2].content = NoValue
    /\ results[3].result_type = "stats" /\ results[3].file_path = NoFile

\* The step in which the DataFile destroy endpoint answers.
DestroyAnswers == api' # api /\ api'.endpoint = "destroy"

\* C17: deleting a DataFile that at least one job references is refused and
\* leaves the DataFile table and the job rows unchanged; in every reachable
\* state the data_file of every job names an existing DataFile.
C17_DataFileProtected ==
    /\ [](\A i \in DOMAIN jobs : jobs[i].data_file \in dataFiles)
    /\ [][(DestroyAnswers /\ \E i \in DOMAIN jobs : jobs[i].data_file = DataFileId) =>
             /\ api'.code = "500"
             /\ api'.body = <<"ProtectedError">>
             /\ dataFiles' = dataFiles
             /\ jobs' = jobs]_vars

C17_Witness ==
    /\ api.endpoint = "destroy"
    /\ api.code = "500"
    /\ JobCreated
    /\ Job.data_file \in dataFiles
    /\ Job.status = "SUCCESS"

\* The types the backends implement and render.
Implemented(backend) ==
    IF backend = "stingray"
    THEN {"power_spectrum", "fourier_transform", "lomb_scargle", "rebin", "pds_simulation"}
    ELSE {"power_spectrum", "lomb_scargle", "fourier_transform", "rebin"}

\* The ValueError a backend's run_analysis raises for a type it does not run.
UnsupportedAnalysisError(r) ==
    /\ ~r.ok
    /\ r.val = {}
    /\ r.err[1] \in {"Unsupported analysis type for Stingray: ",
                     "Unsupported analysis type for Astropy: ",
                     "Unsupported analysis type for Lightkurve: ",
                     "Cross spectrum analysis requires two light curves"}

\* The ValueError a backend's generate_plot raises for a type it does not render.
NoRendererError(r) ==
    /\ ~r.ok
    /\ r.val = {}
    /\ r.err = <<"No plotting function for analysis type: ", call.analysis_type>>

UnsupportedCall(fn) ==
    /\ call.fn = fn
    /\ call.analysis_type \in ANALYSIS_TYPE_CHOICES
    /\ call.analysis_type \notin Implemented(call.backend)

\* C15 (as claimed): for every backend and every analysis type of the model's
\* choices, run_analysis raises the unsupported-analysis error whenever the
\* backend does not implement the type, and generate_plot raises it whenever
\* the backend has no renderer for the type; no result is returned.
C15_Unsupported ==
    /\ UnsupportedCall("run_analysis") => UnsupportedAnalysisError(call.ret)
    /\ UnsupportedCall("generate_plot") => NoRendererError(call.ret)

\* C15 (amended): for a type the backend does not implement, run_analysis
\* returns no result: astropy raises the unsupported-analysis error; stingray
\* and lightkurve raise it once their light curve object is built from the
\* data, and raise the library's exception when that construction fails.
\* generate_plot raises the no-renderer error for a type without renderer.
C15_UnsupportedOnceBuilt ==
    /\ UnsupportedCall("run_analysis") =>
          /\ ~call.ret.ok
          /\ call.ret.val = {}
          /\ (call.backend = "astropy" \/ call.lib_ok) => UnsupportedAnalysisError(call.ret)
          /\ (call.backend # "astropy" /\ ~call.lib_ok) => call.ret.err = <<LibraryError>>
    /\ UnsupportedCall("generate_plot") => NoRendererError(call.ret)

C15_Witness ==
    /\ call.fn = "run_analysis"
    /\ call.backend = "astropy"
    /\ call.analysis_type = "pds_simulation"
    /\ ~call.lib_ok
    /\ call.ret.err = <<"Unsupported analysis type for Astropy: ", "pds_simulation">>

RegisteredCall ==
    /\ call.fn = "run_analysis"
    /\ call.analysis_type \in DOMAIN ANALYSIS_CLASSES

ReturnsData == call.ret.ok /\ "data" \in call.ret.val /\ call.data # {}

Declared(analysis_type) ==
    {ANALYSIS_CLASSES[analysis_type][i][1] :
        i \in 1..Len(ANALYSIS_CLASSES[analysis_type])} \ {"name", "description"}

DeclaredParam(analysis_type, name) ==
    LET params == ANALYSIS_CLASSES[analysis_type]
    IN params[CHOOSE i \in 1..Len(params) : params[i][1] = name][2]

\* C18 (as claimed): for a registered analysis type get_analysis_params
\* returns one entry per declared parameter, each with type, default and doc,
\* with min and max for a parameter declared with bounds and allowed_values
\* for a selector; for any other identifier it raises the unknown-type error
\* and returns nothing.
C18_SchemaOfEveryType ==
    call.fn = "get_analysis_params" =>
        IF call.analysis_type \in DOMAIN ANALYSIS_CLASSES
        THEN /\ call.ret.ok
             /\ {e[1] : e \in call.ret.val} = Declared(call.analysis_type)
             /\ \A e \in call.ret.val :
                   LET p == DeclaredParam(call.analysis_type, e[1])
                   IN /\ {"type", "default", "doc"} \subseteq e[2].keys
                      /\ e[2].type = p.type /\ e[2].default = p.default /\ e[2].doc = p.doc
                      /\ (p.type # "Boolean" /\ p.bounds # NoBounds) =>
                            /\ {"min", "max"} \subseteq e[2].keys
                            /\ <<e[2].min, e[2].max>> = p.bounds
                      /\ p.objects # << >> =>
                            /\ "allowed_values" \in e[2].keys
                            /\ e[2].allowed_values = p.objects
        ELSE /\ ~call.ret.ok
             /\ call.ret.val = {}
             /\ call.ret.err = <<"Unknown analysis type: ", call.analysis_type>>

\* C19 (as claimed): for every backend the peak list has at most 5 entries
\* and is sorted by power in descending order, whatever peaks the peak
\* finder returns.
C19_TopFivePeaks ==
    call.fn = "top_peaks" =>
        /\ Len(call.ret) <= 5
        /\ \A i \in 1..Len(call.ret), j \in 1..Len(call.ret) :
              i < j => call.ret[i].power >= call.ret[j].power

\* C20 (as claimed): for every backend, when the library's rebin call fails
\* (and the generic binning works) the rebin returns a result with data and
\* stats, computed on bin edges from min(time) up to max(time) + bin_time in
\* steps of bin_time.
C20_RebinFallsBack ==
    (call.fn = "rebin" /\ ~call.primary_ok /\ call.fallback_ok) =>
        LET edges == call.ret.bin_edges
            lo == SetMin(call.time)
            hi == SetMax(call.time) + call.bin_time
        IN /\ call.ret.ok
           /\ {"data", "stats"} \subseteq call.ret.val
           /\ Len(edges) >= 1
           /\ \A k \in 1..Len(edges) : edges[k] = lo + (k - 1) * call.bin_time
           /\ edges[Len(edges)] < hi
           /\ hi <= edges[Len(edges)] + call.bin_time

\* The backend steps of a run, in the order of the execution sequence.
BackendSteps == <<"get_backend", "read_file", "run_analysis", "generate_plot">>

\* calls are the first steps of the sequence, every one but the last having
\* returned, and the last one having raised err.
EndsAtFirstFailure(job, calls, err) ==
    LET k == Len(calls)
    IN /\ k \in 1..4
       /\ calls = SubSeq(BackendSteps, 1, k)
       /\ \E installed \in BOOLEAN, analysis_ok \in BOOLEAN, plot_ok \in BOOLEAN :
             LET backend == get_backend(job.backend, installed)
                 data == read_file(job.backend, dataFile)
                 result_data == run_analysis(job.backend, job.analysis_type, analysis_ok)
                 plot_result == generate_plot(job.backend, job.analysis_type,
                                              result_data.val, plot_ok)
             IN CASE k = 1 -> ~backend.ok /\ err = backend.err
                  [] k = 2 -> backend.ok /\ ~data.ok /\ err = data.err
                  [] k = 3 -> backend.ok /\ data.ok /\ ~result_data.ok
                              /\ err = result_data.err
                  [] k = 4 -> backend.ok /\ data.ok /\ result_data.ok
                              /\ ~plot_result.ok /\ err = plot_result.err

\* Every backend step was made and returned.
AllReturned(job, r) ==
    /\ r.calls = BackendSteps
    /\ get_backend(job.backend, TRUE).ok
    /\ read_file(job.backend, dataFile).ok
    /\ \E analysis_ok \in BOOLEAN, plot_ok \in BOOLEAN :
          LET result_data == run_analysis(job.backend, job.analysis_type, analysis_ok)
              plot_result == generate_plot(job.backend, job.analysis_type,
                                           result_data.val, plot_ok)
          IN /\ result_data.ok /\ plot_result.ok
             /\ r.result_data = result_data.val
             /\ r.plot_result = plot_result.val

\* C21: within one run the worker's steps occur in the order mark RUNNING,
\* resolve backend, read_file, run_analysis, generate_plot, materialize
\* results, mark SUCCESS; a step starts only after the previous one returned
\* without error, and after the first failing step no later step of the
\* sequence is executed in that run (no further backend call, no result
\* row, no SUCCESS write).
C21_StepOrder ==
    [][run'.pc # run.pc =>
         CASE RunEnded ->
                 /\ run'.pc \in {"mark_running", "except"}
                 /\ run'.n = run.n + 1
                 /\ run'.calls = << >>
                 /\ jobs' = jobs /\ results' = results
           [] run.pc = "mark_running" ->
                 /\ run'.pc = "backend_calls"
                 /\ run'.calls = << >>
                 /\ jobs'[run.job_id].status = "RUNNING"
                 /\ results' = results
           [] run.pc = "backend_calls" ->
                 /\ jobs' = jobs /\ results' = results
                 /\ \/ run'.pc = "materialize" /\ AllReturned(run.job, run')
                    \/ /\ run'.pc = "except"
                       /\ EndsAtFirstFailure(run.job, run'.calls, run'.err)
           [] run.pc = "materialize" ->
                 /\ run.calls = BackendSteps
                 /\ run'.calls = run.calls
                 /\ jobs' = jobs
                 /\ run'.pc \in {"mark_success", "except"}
           [] run.pc = "mark_success" ->
                 /\ run'.pc = "returned"
                 /\ run'.calls = run.calls
                 /\ results' = results
                 /\ jobs'[run.job_id].status = "SUCCESS"
           [] run.pc \in {"except", "fail_save"} ->
                 /\ run'.pc \in {"fail_save", "raised"}
                 /\ run.pc = "fail_save" => run'.pc = "raised"
                 /\ run'.calls = run.calls
                 /\ results' = results
                 /\ jobs' # jobs => jobs'[run.job_id].status = "FAILED"]_vars

C21_Witness ==
    /\ run.pc = "raised"
    /\ run.calls = <<"get_backend", "read_file">>
    /\ run.err = <<"Could not read text file: ", LibraryError>>
    /\ results = << >>
    /\ Job.status = "FAILED"
    /\ Job.started_at = Now("run", run.n, "started_at")

\* The result types a run's RawResult calls for.
ExpectedTypes(r) ==
    {"plot"} \cup (r.result_data \cap {"data", "stats"})

\* C22 (as claimed): result writes are independent: when persisting one
\* result type fails, persisting the later ones is still attempted, so a
\* materialization in which one write fails leaves the rows of every other
\* result type the RawResult calls for.
C22_WritesIndependent ==
    [][(run.pc = "materialize" /\ run'.pc # "materialize") =>
          \A failed \in RESULT_TYPE_CHOICES :
             (~run'.err = NoText /\ run'.err = <<PersistError, failed>>) =>
                \A t \in ExpectedTypes(run) \ {failed} :
                   \E i \in (Len(results) + 1)..Len(results') :
                      /\ results'[i].result_type = t
                      /\ results'[i].by = run.n]_vars

\* The step in which recording the FAILED state fails.
NestedFailure == run.pc \in {"except", "fail_save"} /\ run'.nested /\ ~run.nested

\* C23 (as claimed): when re-fetching the job or saving the FAILED state
\* fails after a failed run, nothing is raised out of the task and the job's
\* persisted row is left as it was.
C23_NothingRaised ==
    [][NestedFailure => run'.pc # "raised" /\ jobs' = jobs]_vars

\* C23 (amended): when re-fetching the job or saving the FAILED state fails
\* after a failed run, the nested failure is not raised: the task ends by
\* re-raising the run's original exception, as after every failed run, and
\* the job's persisted row and the result rows are left as they were.
C23_OriginalReraised ==
    [][NestedFailure =>
          /\ run'.pc = "raised"
          /\ run'.err = run.err
          /\ run.err # NoText
          /\ jobs' = jobs
          /\ results' = results]_vars

C23_Witness ==
    /\ run.pc = "raised"
    /\ run.nested
    /\ run.job.status = "FAILED"
    /\ Job.status = "RUNNING"
    /\ run.err = <<PersistError, "data">>

\* The default the registry declares for a parameter of a type.
RegistryDefault(analysis_type, name) == DeclaredParam(analysis_type, name).default

\* C24 (as claimed): for every backend and analysis type, a parameter
\* missing from the job's parameters runs with the default the registry
\* declares for it under that analysis type, and so with the same value on
\* every backend that reads it.
C24_RegistryDefaults ==
    call.fn = "run_params" =>
        \A kv \in call.ret :
           (/\ call.analysis_type \in DOMAIN ANALYSIS_CLASSES
            /\ kv[1] \in Declared(call.analysis_type)
            /\ ~\E given \in call.parameters : given[1] = kv[1]) =>
              /\ kv[2] = RegistryDefault(call.analysis_type, kv[1])
              /\ \A other \in BACKEND_CHOICES :
                    \A okv \in run_params(other, call.analysis_type, call.parameters) :
                       okv[1] = kv[1] => okv[2] = kv[2]

\* The result rows of the job, of one type.
RowsOfType(result_type) ==
    {i \in 1..Len(results) : results[i].job = 1 /\ results[i].result_type = result_type}

\* A step of a delivery after the first.
RedeliveredStep == run.n > 1 /\ ~RunEnded /\ run' # run

\* C25 (as claimed): with the job id delivered more than once, the job has
\* in every reachable state at most one result row of each type, and a step
\* of a redelivered run taken while the job is SUCCESS or FAILED makes no
\* backend call and writes nothing.
C25_AtLeastOnceSafe ==
    /\ [](\A t \in RESULT_TYPE_CHOICES : Cardinality(RowsOfType(t)) <= 1)
    /\ [][(RedeliveredStep /\ Job.status \in Terminal) =>
             /\ jobs' = jobs
             /\ results' = results
             /\ run'.calls = << >>]_vars

\* The first delivery of the task fetched the job after a cancel had been
\* answered, and is in its try block: the job was cancelled while PENDING,
\* before any worker had picked it up.
PickedUpCancelled ==
    /\ run.n = 1
    /\ run.pc \in {"mark_running", "backend_calls", "materialize", "mark_success"}
    /\ run.job.error_message = CancelledText

\* C26 (as claimed): a job cancelled while PENDING, before any worker has
\* picked it up, is never executed: the worker that later receives its id
\* makes no backend call, creates no result row and leaves the job row
\* FAILED with the cancelled text.
C26_CancelledNeverRuns ==
    [][(PickedUpCancelled /\ run' # run) =>
          /\ run'.calls = << >>
          /\ results' = results
          /\ jobs' = jobs]_vars

\* The run ends with the exception of a result write that followed created rows.
PartialPersistFailure ==
    /\ RunRaises
    /\ run.err \in {<<PersistError, "data">>, <<PersistError, "stats">>}

\* The rows the run created before the failing write are in the table.
PartialRowsKept(table) ==
    /\ \E i \in 1..Len(table) :
          table[i] = PlotResult(run, Now("run", run.n, "plot_filename"))
    /\ run.err = <<PersistError, "stats">> /\ "data" \in run.result_data =>
          \E i \in 1..Len(table) :
             table[i] = DataResult(run, Now("run", run.n, "data_filename"))

\* No step removes or changes a result row.
RowsAppendOnly ==
    /\ Len(results') >= Len(results)
    /\ SubSeq(results', 1, Len(results)) = results

\* C27 (as claimed): when result persistence fails after rows of the run
\* were created, the job ends FAILED and the rows already created stay
\* attached to the job unchanged.
C27_NoRollbackFailed ==
    [][/\ RowsAppendOnly
       /\ PartialPersistFailure =>
             /\ jobs'[1].status = "FAILED"
             /\ PartialRowsKept(results')]_vars

\* C27 (amended): when result persistence fails after rows of the run were
\* created, the rows already created stay attached to the job unchanged, and
\* the run leaves the job FAILED with the write's exception as error_message
\* unless recording the FAILED state fails in turn: then the row is left as
\* it was.
C27_NoRollback ==
    [][/\ RowsAppendOnly
       /\ PartialPersistFailure =>
             /\ PartialRowsKept(results')
             /\ ~run'.nested =>
                   /\ jobs'[1].status = "FAILED"
                   /\ jobs'[1].error_message = run.err
             /\ run'.nested => jobs' = jobs]_vars

C27_Witness ==
    /\ run.pc = "raised"
    /\ ~run.nested
    /\ run.err = <<PersistError, "stats">>
    /\ Job.status = "FAILED"
    /\ Job.error_message = <<PersistError, "stats">>
    /\ RowsOf(run.n, "plot") # {}
    /\ RowsOf(run.n, "data") # {}
    /\ RowsOf(run.n, "stats") = {}

\* C28: in every reachable state a job whose persisted status is RUNNING or
\* SUCCESS has started_at set, and a job whose persisted status is PENDING
\* has neither started_at nor finished_at.
C28_StartedAtMatchesStatus ==
    JobCreated =>
        /\ Job.status \in {"RUNNING", "SUCCESS"} => Job.started_at # NoTime
        /\ Job.status = "PENDING" =>
              Job.started_at = NoTime /\ Job.finished_at = NoTime

C28_Witness ==
    /\ JobCreated
    /\ Job.status = "SUCCESS"
    /\ Job.started_at = Now("run", 2, "started_at")
    /\ cancel.pc = "done"
    /\ create.pc = "done"

\* generate_plot is called with what run_analysis of the same backend
\* returned for the same type.
PlotsOwnResult ==
    /\ call.fn = "generate_plot"
    /\ run_analysis(call.backend, call.analysis_type, TRUE).ok
    /\ call.result_data = run_analysis(call.backend, call.analysis_type, TRUE).val

\* C29: whenever run_analysis returns a RawResult for a type, generate_plot
\* of the same backend has a renderer for the type and finds in the
\* RawResult every field and column the renderer reads: the plot step fails
\* only when the rendering library raises.
C29_RendererFindsFields ==
    PlotsOwnResult =>
        /\ call.lib_ok => call.ret.ok /\ call.ret.val = {"html", "json_data"}
        /\ ~call.lib_ok => ~call.ret.ok /\ call.ret.err = <<LibraryError>>
        /\ RendererColumns(call.backend, call.analysis_type) # {}
        /\ RendererColumns(call.backend, call.analysis_type)
              \subseteq FrameColumns(call.backend, call.analysis_type)

C29_Witness ==
    /\ PlotsOwnResult
    /\ call.backend = "stingray"
    /\ call.analysis_type = "pds_simulation"
    /\ {"lc_df", "ps_df"} \subseteq call.result_data
    /\ call.ret.ok

\* C30 (as claimed): every analysis type a create request is accepted with
\* is implemented by run_analysis of at least one registered backend.
C30_AcceptedTypeRuns ==
    JobCreated =>
        \E backend \in BACKEND_CHOICES :
           run_analysis(backend, Job.analysis_type, TRUE).ok

====
